---- MODULE Spec2Model ----
(***************************************************************************)
(* The user-account and scoring HTTP service of src/main.go, lines 199-478 *)
(* (the version of the program that has the "users" and "scores" hashes    *)
(* and the UpdateScore and GetHighestScore handlers).  Lines 1-197 hold an *)
(* earlier version of the same program, whose Signup stored the password   *)
(* under the plain key (SET) and which has no scores; it is not modelled.  *)
(*                                                                         *)
(* The Redis store has three name spaces the handlers touch: the plain     *)
(* string keys (GET), the hash "users" and the hash "scores" (HGET, HSET,  *)
(* HGETALL).  Every store command is one atomic step; a handler is the     *)
(* sequence of its store commands, and requests run as goroutines that     *)
(* interleave between store commands.  The computation a handler does      *)
(* before its first store command (CORS headers, OPTIONS test, JSON        *)
(* decoding) touches no shared state and is part of the step of the first  *)
(* store command; the response that follows the last store command is      *)
(* part of the step of that command.                                       *)
(***************************************************************************)
EXTENDS Integers, Sequences, FiniteSets, TLC

\* ------------------------------------------------------------------ bounds
NProcs == 2          \* goroutines serving requests at the same time
MaxReqs == 4         \* requests accepted in one behaviour
MaxOverlaps == 1     \* requests accepted while another is being served

Procs == 1..NProcs
Emails == {"a", "b"}
Passwords == {"", "p"}
Deltas == {3, 5}

VARIABLES
  keys,       \* plain string keys of the store: key -> value
  users,      \* hash "users": field (email) -> password
  scores,     \* hash "scores": field (email) -> decimal numeral
  pc,         \* pc[p]: the store command goroutine p runs next
  req,        \* req[p]: the decoded request goroutine p is serving
  score,      \* score[p]: the local variable score of UpdateScoreHandler
  nreq,       \* number of requests accepted so far
  overlaps,   \* number of requests accepted while another was being served
  last,       \* history: the request that responded last
  prev,       \* history: the response before last, when it was to a decoded Signup
              \* whose store commands did not fail
  sum,        \* history: per email, the deltas of the UpdateScore that responded 200
  signups,    \* history: <<email, password>> of every Signup that responded 201
  overtaken,  \* history: overtaken[p]: another request wrote between p's read and p's write
  raceDone,   \* history: the last pair of requests that completed a read-read-write-write
  updOverlap  \* history: same: the emails for which two UpdateScore requests ran their
              \* store commands at the same time; diff: two UpdateScore requests for
              \* different emails did

vars == <<keys, users, scores, pc, req, score, nreq, overlaps, last, prev, sum, signups,
          overtaken, raceDone, updOverlap>>

\* ------------------------------------------------- strconv: Itoa and Atoi
Digits == <<"0", "1", "2", "3", "4", "5", "6", "7", "8", "9">>

RECURSIVE NatToStr(_)
NatToStr(n) ==
  IF n < 10 THEN <<Digits[n + 1]>>
  ELSE NatToStr(n \div 10) \o <<Digits[(n % 10) + 1]>>

\* go-redis writes an int argument as its decimal numeral
Itoa(n) == IF n < 0 THEN <<"-">> \o NatToStr(0 - n) ELSE NatToStr(n)

IsDigit(c) == \E d \in 1..10 : Digits[d] = c
DigitVal(c) == (CHOOSE d \in 1..10 : Digits[d] = c) - 1

RECURSIVE StrToNat(_)
StrToNat(s) ==
  IF Len(s) = 1 THEN DigitVal(s[1])
  ELSE 10 * StrToNat(SubSeq(s, 1, Len(s) - 1)) + DigitVal(s[Len(s)])

AllDigits(s) == Len(s) > 0 /\ \A i \in 1..Len(s) : IsDigit(s[i])

\* strconv.Atoi: the value and whether the numeral is malformed
Atoi(s) ==
  IF AllDigits(s) THEN [val |-> StrToNat(s), err |-> FALSE]
  ELSE IF Len(s) > 1 /\ s[1] \in {"-", "+"} /\ AllDigits(Tail(s))
       THEN [val |-> IF s[1] = "-" THEN 0 - StrToNat(Tail(s)) ELSE StrToNat(Tail(s)),
             err |-> FALSE]
       ELSE [val |-> 0, err |-> TRUE]

\* ------------------------------------------------------ the store client
\* GET key / HGET hash field: a missing key or field is the value "" with
\* the sentinel error redis.Nil
Get(space, key) ==
  IF key \in DOMAIN space THEN [val |-> space[key], nil |-> FALSE]
  ELSE [val |-> "", nil |-> TRUE]

HGet(hash, field) == Get(hash, field)

\* HSET hash field value: adds the field or overwrites its value
HSet(hash, field, value) ==
  [f \in DOMAIN hash \cup {field} |-> IF f = field THEN value ELSE hash[f]]

\* HGET(...).Int(): redis.Nil gives 0 with the sentinel, else Atoi of the value
HGetInt(hash, field) ==
  IF field \in DOMAIN hash
  THEN [val |-> Atoi(hash[field]).val, nil |-> FALSE, err |-> Atoi(hash[field]).err]
  ELSE [val |-> 0, nil |-> TRUE, err |-> FALSE]

\* HGETALL "users" turned into the slice of User the handler encodes; the
\* order of the slice is Go's map iteration order, so it is kept as a set
UserList(hash) == {[email |-> e, password |-> hash[e]] : e \in DOMAIN hash}

\* ------------------------------------------------------------- requests
\* json.Decode into a User: a malformed body is an error and leaves the
\* zero value; an OPTIONS request is answered before the body is read
Decoded(m, e, pw, sc) ==
  [method |-> m, ok |-> TRUE, email |-> e, password |-> pw, score |-> sc,
   known |-> FALSE, keyed |-> FALSE]
BadBody(m) ==
  [method |-> m, ok |-> FALSE, email |-> "", password |-> "", score |-> 0,
   known |-> FALSE, keyed |-> FALSE]
Preflight ==
  [method |-> "OPTIONS", ok |-> FALSE, email |-> "", password |-> "", score |-> 0,
   known |-> FALSE, keyed |-> FALSE]

SignupReqs ==
  {Decoded("POST", e, pw, 0) : e \in Emails, pw \in Passwords} \cup {BadBody("POST"), Preflight}
LoginReqs == SignupReqs
UpdateScoreReqs ==
  {Decoded("POST", e, "", d) : e \in Emails, d \in Deltas} \cup {BadBody("POST"), Preflight}
GetScoreReqs ==
  {Decoded("GET", e, "", 0) : e \in Emails} \cup {BadBody("GET"), Preflight}

NoReq == BadBody("NONE")
None == [h |-> "none"]

\* the history record of a request that has responded
Done(p, h, r, status, body, err) ==
  [h |-> h, method |-> r.method, ok |-> r.ok, email |-> r.email,
   password |-> r.password, score |-> r.score, known |-> r.known, keyed |-> r.keyed,
   status |-> status, body |-> body, err |-> err]

\* goroutine p writes its response: the request is over
Respond(p, h, r, status, body, err) ==
  /\ last' = Done(p, h, r, status, body, err)
  /\ prev' = IF last.h = "Signup" /\ last.ok /\ ~last.err THEN last ELSE None
  /\ pc' = [pc EXCEPT ![p] = "idle"]
  /\ req' = [req EXCEPT ![p] = NoReq]
  /\ score' = [score EXCEPT ![p] = 0]

\* goroutine p goes on to its next store command
Goto(p, label, r) ==
  /\ pc' = [pc EXCEPT ![p] = label]
  /\ req' = [req EXCEPT ![p] = r]
  /\ UNCHANGED <<last, prev>>

\* a request is accepted by an idle goroutine (the first idle one: which
\* goroutine serves a request makes no difference to it)
Accept(p) ==
  /\ pc[p] = "idle"
  /\ \A q \in Procs : q < p => pc[q] # "idle"
  /\ nreq < MaxReqs
  /\ nreq' = nreq + 1
  /\ IF \E q \in Procs : pc[q] # "idle"
     THEN overlaps < MaxOverlaps /\ overlaps' = overlaps + 1
     ELSE overlaps' = overlaps

\* the request with its history fields: when it starts, its email is a field
\* of "users" (known), is a plain key (keyed)
Arrive(r) ==
  [r EXCEPT !.known = r.email \in DOMAIN users, !.keyed = r.email \in DOMAIN keys]

\* a name space with no key, a hash with no field
Empty == [k \in {} |-> ""]

Init ==
  /\ keys = Empty
  /\ users = Empty
  /\ scores = Empty
  /\ pc = [p \in Procs |-> "idle"]
  /\ req = [p \in Procs |-> NoReq]
  /\ score = [p \in Procs |-> 0]
  /\ nreq = 0
  /\ overlaps = 0
  /\ last = None
  /\ prev = None
  /\ sum = [e \in Emails |-> 0]
  /\ signups = {}
  /\ overtaken = [p \in Procs |-> None]
  /\ raceDone = None
  /\ updOverlap = [same |-> {}, diff |-> FALSE]

\* --------------------------------------------------------- SignupHandler
\* line 272: the test the handler takes for "the user already exists"
SignupExists(val) == val # ""

\* lines 246-279: OPTIONS, decode, then GET <email> on the plain keys
SignupCheck(p, r) ==
  /\ Accept(p)
  /\ UNCHANGED <<keys, users, scores, sum, signups, overtaken, raceDone, updOverlap>>
  /\ IF r.method = "OPTIONS"
     THEN Respond(p, "Signup", r, 200, "", FALSE)
     ELSE IF ~r.ok
     THEN Respond(p, "Signup", r, 400, "Invalid request body", FALSE)
     ELSE \E fail \in BOOLEAN :
            IF fail
            THEN Respond(p, "Signup", Arrive(r), 500, "Error checking user existence", TRUE)
            ELSE IF SignupExists(Get(keys, r.email).val)
            THEN Respond(p, "Signup", Arrive(r), 400, "User already exists", FALSE)
            ELSE /\ Goto(p, "sSet", Arrive(r))
                 /\ UNCHANGED score

\* a write that keeps the password of a field that is already there (HSETNX)
SignupWriteIfAbsent(hash, email, password) ==
  IF email \in DOMAIN hash THEN hash ELSE HSet(hash, email, password)

\* line 282: what HSET "users" <email> <password> leaves in the hash
SignupWrite(hash, email, password) == HSet(hash, email, password)

\* a success path that writes the body without WriteHeader(201): net/http
\* then sends 200
SignupStatusNoHeader(stored) == IF stored THEN 200 ELSE 500

\* lines 283-290: the status after the HSET, by whether it succeeded
SignupStatus(stored) == IF stored THEN 201 ELSE 500

\* lines 281-291: HSET "users" <email> <password>, then 201
SignupStore(p) ==
  /\ pc[p] = "sSet"
  /\ UNCHANGED <<keys, scores, sum, nreq, overlaps, updOverlap>>
  /\ \E fail \in BOOLEAN :
       IF fail
       THEN /\ Respond(p, "Signup", req[p], SignupStatus(FALSE), "Error storing user data", TRUE)
            /\ overtaken' = [overtaken EXCEPT ![p] = None]
            /\ UNCHANGED <<users, signups, raceDone>>
       ELSE /\ users' = SignupWrite(users, req[p].email, req[p].password)
            /\ Respond(p, "Signup", req[p], SignupStatus(TRUE), "User signed up successfully",
                       FALSE)
            /\ signups' = signups \cup {<<req[p].email, req[p].password>>}
            /\ overtaken' =
                 [q \in Procs |->
                    IF q = p THEN None
                    ELSE IF pc[q] = "sSet" /\ req[q].email = req[p].email
                            /\ overtaken[q].h = "none"
                    THEN [h |-> "Signup", first |-> req[p].password, init |-> 0,
                          status |-> last'.status]
                    ELSE overtaken[q]]
            /\ raceDone' =
                 IF overtaken[p].h = "Signup"
                 THEN [h |-> "Signup", email |-> req[p].email,
                       first |-> overtaken[p].first, last |-> req[p].password,
                       init |-> 0, final |-> users'[req[p].email],
                       firstStatus |-> overtaken[p].status, lastStatus |-> last'.status]
                 ELSE raceDone

\* ---------------------------------------------------- GetAllUsersHandler
\* lines 294-322: HGETALL "users", the entries as a JSON array
GetAllUsers(p) ==
  /\ Accept(p)
  /\ UNCHANGED <<keys, users, scores, sum, signups, overtaken, raceDone, updOverlap>>
  /\ \E fail \in BOOLEAN :
       IF fail
       THEN Respond(p, "ListUsers", Decoded("GET", "", "", 0), 500,
                    "Error retrieving user data", TRUE)
       ELSE Respond(p, "ListUsers", Decoded("GET", "", "", 0), 200, UserList(users), FALSE)

\* ---------------------------------------------------------- LoginHandler
\* lines 324-369: OPTIONS, decode, GET <email> on the plain keys, compare
Login(p, r) ==
  /\ Accept(p)
  /\ UNCHANGED <<keys, users, scores, sum, signups, overtaken, raceDone, updOverlap>>
  /\ IF r.method = "OPTIONS"
     THEN Respond(p, "Login", r, 200, "", FALSE)
     ELSE IF ~r.ok
     THEN Respond(p, "Login", r, 400, "Invalid request body", FALSE)
     ELSE \E fail \in BOOLEAN :
            LET g == Get(keys, r.email) IN
            IF fail
            THEN Respond(p, "Login", Arrive(r), 500, "Error retrieving user data", TRUE)
            ELSE IF g.nil
            THEN Respond(p, "Login", Arrive(r), 404, "User not found", FALSE)
            ELSE IF r.password # g.val
            THEN Respond(p, "Login", Arrive(r), 401, "Incorrect password", FALSE)
            ELSE Respond(p, "Login", Arrive(r), 200, "Login successful", FALSE)

\* ---------------------------------------------------- UpdateScoreHandler
\* an existence test that lets every email through
UserFoundAlways(val) == TRUE

\* line 398 (negated): the test the handler takes for "the user exists"
UserFound(val) == val # ""

\* the goroutines that are between the store commands of an UpdateScore
Updating == {q \in Procs : pc[q] \in {"uGetScore", "uSet"}}

\* lines 371-405: OPTIONS, decode, then HGET "users" <email>
UpdateScoreCheck(p, r) ==
  /\ Accept(p)
  /\ UNCHANGED <<keys, users, scores, sum, signups, overtaken, raceDone>>
  /\ IF r.method = "OPTIONS"
     THEN Respond(p, "UpdateScore", r, 200, "", FALSE) /\ UNCHANGED updOverlap
     ELSE IF ~r.ok
     THEN Respond(p, "UpdateScore", r, 400, "Invalid request body", FALSE) /\ UNCHANGED updOverlap
     ELSE \E fail \in BOOLEAN :
            IF fail
            THEN /\ Respond(p, "UpdateScore", Arrive(r), 500, "Error checking user existence",
                            TRUE)
                 /\ UNCHANGED updOverlap
            ELSE IF ~UserFound(HGet(users, r.email).val)
            THEN /\ Respond(p, "UpdateScore", Arrive(r), 404, "User not found", FALSE)
                 /\ UNCHANGED updOverlap
            ELSE /\ Goto(p, "uGetScore", Arrive(r))
                 /\ UNCHANGED score
                 /\ updOverlap' =
                      [same |-> updOverlap.same \cup
                                  {req[q].email : q \in {q \in Updating : req[q].email = r.email}},
                       diff |-> updOverlap.diff \/ \E q \in Updating : req[q].email # r.email]

\* lines 407-413: HGET "scores" <email> as an int, 0 when the field is missing
UpdateScoreRead(p) ==
  /\ pc[p] = "uGetScore"
  /\ UNCHANGED <<keys, users, scores, sum, signups, overtaken, raceDone, nreq, overlaps,
               updOverlap>>
  /\ \E fail \in BOOLEAN :
       LET g == HGetInt(scores, req[p].email) IN
       IF fail \/ g.err
       THEN Respond(p, "UpdateScore", req[p], 500, "Error retrieving user score", TRUE)
       ELSE /\ Goto(p, "uSet", req[p])
            /\ score' = [score EXCEPT ![p] = g.val]

\* the delta stored in place of the sum (score = user.Score)
NewScoreAssign(p) == req[p].score

\* the delta added to the score the store holds at the time of the write
\* (an atomic increment, HINCRBY)
NewScoreIncr(p) == HGetInt(scores, req[p].email).val + req[p].score

\* line 414: score += user.Score
NewScore(p) == score[p] + req[p].score

\* lines 414-424: HSET "scores" <email> <score>, then 200
UpdateScoreWrite(p) ==
  /\ pc[p] = "uSet"
  /\ UNCHANGED <<keys, users, signups, nreq, overlaps, updOverlap>>
  /\ \E fail \in BOOLEAN :
       IF fail
       THEN /\ Respond(p, "UpdateScore", req[p], 500, "Error updating user score", TRUE)
            /\ overtaken' = [overtaken EXCEPT ![p] = None]
            /\ UNCHANGED <<scores, sum, raceDone>>
       ELSE /\ scores' = HSet(scores, req[p].email, Itoa(NewScore(p)))
            /\ Respond(p, "UpdateScore", req[p], 200, "User score updated successfully", FALSE)
            /\ sum' = [sum EXCEPT ![req[p].email] = @ + req[p].score]
            /\ overtaken' =
                 [q \in Procs |->
                    IF q = p THEN None
                    ELSE IF pc[q] = "uSet" /\ req[q].email = req[p].email
                            /\ overtaken[q].h = "none"
                            /\ score[q] = HGetInt(scores, req[p].email).val
                            /\ score[p] = score[q]
                    THEN [h |-> "UpdateScore", first |-> req[p].score, init |-> score[q],
                          status |-> last'.status]
                    ELSE overtaken[q]]
            /\ raceDone' =
                 IF overtaken[p].h = "UpdateScore"
                 THEN [h |-> "UpdateScore", email |-> req[p].email,
                       first |-> overtaken[p].first, last |-> req[p].score,
                       init |-> overtaken[p].init,
                       final |-> HGetInt(scores', req[p].email).val,
                       firstStatus |-> overtaken[p].status, lastStatus |-> last'.status]
                 ELSE raceDone

\* ------------------------------------------------ GetHighestScoreHandler
\* an error test that lets every error through (the err of line 448 ignored)
ScoreReadFailedNever(fail, g) == FALSE

\* an error test that takes the sentinel redis.Nil for a failure (err != nil)
ScoreReadFailedOnNil(fail, g) == fail \/ g.err \/ g.nil

\* line 449: the errors of the read that end the request with 500; the
\* sentinel redis.Nil is not one of them
ScoreReadFailed(fail, g) == fail \/ g.err

\* a GetScore that stores the default 0 for an email that has no score yet
GetHighestScoreStoresDefault(p, r) ==
  /\ Accept(p)
  /\ UNCHANGED <<keys, users, sum, signups, overtaken, raceDone, updOverlap>>
  /\ IF r.method = "OPTIONS"
     THEN Respond(p, "GetScore", r, 200, "", FALSE) /\ UNCHANGED scores
     ELSE IF ~r.ok
     THEN Respond(p, "GetScore", r, 400, "Invalid request body", FALSE) /\ UNCHANGED scores
     ELSE \E fail \in BOOLEAN :
            LET g == HGetInt(scores, r.email) IN
            IF fail \/ g.err
            THEN /\ Respond(p, "GetScore", Arrive(r), 500, "Error retrieving user score", TRUE)
                 /\ UNCHANGED scores
            ELSE /\ Respond(p, "GetScore", Arrive(r), 200, g.val, FALSE)
                 /\ scores' = IF g.nil THEN HSet(scores, r.email, Itoa(0)) ELSE scores

\* lines 427-460: OPTIONS, decode, HGET "scores" <email> as an int, 200
GetHighestScore(p, r) ==
  /\ Accept(p)
  /\ UNCHANGED <<keys, users, scores, sum, signups, overtaken, raceDone, updOverlap>>
  /\ IF r.method = "OPTIONS"
     THEN Respond(p, "GetScore", r, 200, "", FALSE)
     ELSE IF ~r.ok
     THEN Respond(p, "GetScore", r, 400, "Invalid request body", FALSE)
     ELSE \E fail \in BOOLEAN :
            LET g == HGetInt(scores, r.email) IN
            IF ScoreReadFailed(fail, g)
            THEN Respond(p, "GetScore", Arrive(r), 500, "Error retrieving user score",
                         fail \/ g.err)
            ELSE Respond(p, "GetScore", Arrive(r), 200, g.val, fail \/ g.err)

\* ------------------------------------------------------ specifications
\* one step of goroutine p
Step(p) ==
  \/ \E r \in SignupReqs : SignupCheck(p, r)
  \/ SignupStore(p)
  \/ GetAllUsers(p)
  \/ \E r \in LoginReqs : Login(p, r)
  \/ \E r \in UpdateScoreReqs : UpdateScoreCheck(p, r)
  \/ UpdateScoreRead(p)
  \/ UpdateScoreWrite(p)
  \/ \E r \in GetScoreReqs : GetHighestScore(p, r)

\* requests served concurrently, one goroutine each (net/http)
Next == \E p \in Procs : Step(p)

Spec == Init /\ [][Next]_vars

\* requests served one at a time: one goroutine, so a request is accepted
\* only after the one before has responded
NextSeq == \E p \in {1} : Step(p)

SpecSeq == Init /\ [][NextSeq]_vars

\* a handler blocked in a store command goes on when the command returns:
\* no timeout, no cancellation, and the goroutine is scheduled
Resume(p) == SignupStore(p) \/ UpdateScoreRead(p) \/ UpdateScoreWrite(p)

FairSpec == Spec /\ \A p \in Procs : WF_vars(Resume(p))

\* ---------------------------------------------------------------- claims
\* two responses in a row to decoded Signup requests for the same email
SignupTwice ==
  /\ prev.h = "Signup" /\ last.h = "Signup"
  /\ prev.ok /\ last.ok
  /\ prev.email = last.email

\* C1: when Signup is run twice in sequence for the same email, nothing in
\* between and no store error, from a store where the email is absent, the
\* first responds 201 and the second 400 "User already exists".
C1_SignupTwiceRejected ==
  (SignupTwice /\ ~prev.known /\ ~prev.keyed /\ ~prev.err /\ ~last.err)
    => /\ prev.status = 201
       /\ last.status = 400
       /\ last.body = "User already exists"

\* C2: after Signup(e, p) responded 201 with no store error, Login(e, p)
\* responds 200, Login(e, q) with q # p responds 401, and Login with an
\* email that was never signed up responds 404.
C2_LoginAfterSignup ==
  (prev.h = "Signup" /\ prev.status = 201 /\ last.h = "Login" /\ last.ok /\ ~last.err)
    => /\ (last.email = prev.email /\ last.password = prev.password) => last.status = 200
       /\ (last.email = prev.email /\ last.password # prev.password) => last.status = 401
       /\ (\A pw \in Passwords : <<last.email, pw>> \notin signups) => last.status = 404

\* C3: with requests served one at a time, the score of an email is the sum
\* of the deltas of the UpdateScore requests for it that responded 200 (0
\* when there was none), and a GetScore that responds 200 returns that sum;
\* deltas 5 and 3 give 8.
C3_ScoreAccumulates ==
  /\ \A e \in Emails : HGetInt(scores, e).val = sum[e]
  /\ \A e \in Emails : sum[e] # 0 => e \in DOMAIN users
  /\ (last.h = "GetScore" /\ last.ok /\ last.status = 200) => last.body = sum[last.email]

C3_Witness ==
  /\ last.h = "GetScore" /\ last.ok /\ last.status = 200
  /\ last.email \in DOMAIN users
  /\ sum[last.email] = 8
  /\ last.body = 8

\* C4: ListUsers returns exactly one entry per email whose Signup responded
\* 201, with the password of that Signup, and nothing else.
C4_ListIsSignups ==
  (last.h = "ListUsers" /\ last.status = 200)
    => /\ last.body = {[email |-> x[1], password |-> x[2]] : x \in signups}
       /\ \A u, v \in last.body : u.email = v.email => u = v

\* C5: once an email has a password in "users", no request served one at a
\* time changes or removes that password.
C5_PasswordKept ==
  [][\A e \in DOMAIN users : e \in DOMAIN users' /\ users'[e] = users[e]]_vars

\* C6: GetScore for an email with no field in "scores" responds 200 with
\* score 0, whether the email is a user or not, unless the read itself fails.
C6_GetScoreDefaultsToZero ==
  (last.h = "GetScore" /\ last.ok /\ ~last.err /\ last.email \notin DOMAIN scores)
    => (last.status = 200 /\ last.body = 0)

C6_Witness ==
  /\ last.h = "GetScore" /\ last.ok /\ ~last.err
  /\ last.email \notin DOMAIN scores
  /\ last.email \in DOMAIN users
  /\ last.status = 200 /\ last.body = 0

\* C7: when two UpdateScore requests for the same email both read the score
\* before either writes and both respond 200, the score stored by the second
\* write is the score both read plus the delta of the second request alone:
\* the first delta is lost.
C7_LostUpdate ==
  raceDone.h = "UpdateScore"
    => /\ raceDone.firstStatus = 200 /\ raceDone.lastStatus = 200
       /\ raceDone.final = raceDone.init + raceDone.last

C7_Witness ==
  /\ raceDone.h = "UpdateScore"
  /\ last.h = "UpdateScore" /\ last.status = 200 /\ last.email = raceDone.email
  /\ raceDone.first # 0
  /\ HGetInt(scores, raceDone.email).val = raceDone.init + raceDone.last
  /\ sum[raceDone.email] = raceDone.init + raceDone.first + raceDone.last

\* C8: when two Signup requests for the same email both pass the existence
\* check before either writes, both respond 201 and "users" holds the
\* password written last.
C8_DuplicateBypass ==
  raceDone.h = "Signup"
    => /\ raceDone.firstStatus = 201 /\ raceDone.lastStatus = 201
       /\ raceDone.final = raceDone.last

C8_Witness ==
  /\ raceDone.h = "Signup"
  /\ raceDone.first # raceDone.last
  /\ last.h = "Signup" /\ last.status = 201 /\ ~last.known
  /\ last.email = raceDone.email
  /\ users[raceDone.email] = raceDone.last
  /\ <<raceDone.email, raceDone.first>> \in signups

\* C9: UpdateScore for an email that is not a field of "users" responds 404
\* (500 when the read of "users" fails), for every delta, and the step that
\* responds 404 leaves "users" and "scores" as they were.
C9_UnknownUserNotFound ==
  /\ [](last.h = "UpdateScore" /\ last.ok /\ ~last.known /\ ~last.err => last.status = 404)
  /\ [][(nreq' # nreq /\ last'.h = "UpdateScore" /\ last'.status = 404)
          => (users' = users /\ scores' = scores)]_vars

C9_Witness ==
  /\ last.h = "UpdateScore" /\ last.ok /\ ~last.known /\ ~last.err
  /\ last.status = 404
  /\ last.score = 5
  /\ DOMAIN users # {} /\ DOMAIN scores # {}

\* C10: UpdateScore for an email that is a field of "users", whatever the
\* password stored (the empty string too), responds 200 absent store errors,
\* and Signup for an email that is a field of "users" responds 400.
C10_PresentWhateverPassword ==
  /\ (last.h = "UpdateScore" /\ last.ok /\ last.known /\ ~last.err) => last.status = 200
  /\ (last.h = "Signup" /\ last.ok /\ last.known /\ ~last.err) => last.status = 400

\* goroutine p writes a response in this step
Responds(p) ==
  /\ pc'[p] = "idle"
  /\ \/ pc[p] # "idle"
     \/ nreq' # nreq /\ \A q \in Procs : pc'[q] = pc[q]

StoreUnchanged == keys' = keys /\ users' = users /\ scores' = scores

\* C11: a request whose store command fails (not redis.Nil) responds 500 in
\* that very step, so it runs no further store command; a step that does not
\* respond writes nothing (the only write of a handler is its last store
\* command), and a step that responds with a 4xx or 5xx status writes
\* nothing: such a request leaves "users" and "scores" as it found them.
C11_ErrorsWriteNothing ==
  /\ [][\A p \in Procs : (Responds(p) /\ last'.err) => last'.status = 500]_vars
  /\ [][\A p \in Procs : (Responds(p) /\ last'.status >= 400) => StoreUnchanged]_vars
  /\ [][(\A p \in Procs : ~Responds(p)) => StoreUnchanged]_vars

C11_Witness ==
  /\ last.h = "UpdateScore" /\ last.err /\ last.status = 500
  /\ last.body = "Error updating user score"
  /\ last.known
  /\ last.email \notin DOMAIN scores
  /\ DOMAIN scores # {}

\* the statuses the interface lists for each endpoint
Listed(h) ==
  CASE h = "Signup" -> {201, 400, 500}
    [] h = "ListUsers" -> {200, 500}
    [] h = "Login" -> {200, 400, 401, 404, 500}
    [] h = "UpdateScore" -> {200, 400, 404, 500}
    [] h = "GetScore" -> {200, 400, 500}

\* the order of the store commands of the handlers: one for Login, ListUsers
\* and GetScore, at most two for Signup, at most three for UpdateScore
Flow ==
  {<<"idle", "sSet">>, <<"sSet", "idle">>,
   <<"idle", "uGetScore">>, <<"uGetScore", "uSet">>, <<"uGetScore", "idle">>,
   <<"uSet", "idle">>}

LoginBodies ==
  {"", "Invalid request body", "Error retrieving user data", "User not found",
   "Incorrect password", "Login successful"}

\* C13: a step of Login, ListUsers or GetScore (each is one store command,
\* so one step), whatever other requests are in flight, leaves the plain
\* keys, "users" and "scores" unchanged, and Login answers with a message
\* only.
C13_ReadersWriteNothing ==
  [][(/\ nreq' # nreq
      /\ \A q \in Procs : pc'[q] = pc[q]
      /\ last'.h \in {"Login", "ListUsers", "GetScore"})
       => (StoreUnchanged /\ (last'.h = "Login" => last'.body \in LoginBodies))]_vars

C13_Witness ==
  /\ last.h = "GetScore" /\ last.ok /\ last.status = 200
  /\ last.email \notin DOMAIN scores
  /\ \E q \in Procs : pc[q] = "uSet" /\ req[q].email = last.email

\* C14: in every reachable state, under every interleaving, an email with a
\* field in "scores" has a field in "users": UpdateScore goes on to its
\* write only for an email it found in "users", and no handler deletes.
C14_ScoredAreUsers ==
  /\ DOMAIN scores \subseteq DOMAIN users
  /\ \A p \in Procs : pc[p] \in {"uGetScore", "uSet"} => req[p].email \in DOMAIN users

C14_Witness ==
  /\ DOMAIN scores # {}
  /\ overlaps > 0
  /\ last.h = "UpdateScore" /\ last.status = 404
  /\ \E p \in Procs : pc[p] = "uSet"

\* the field e of "scores" is not what it was
ScoreChanged(e) ==
  \/ (e \in DOMAIN scores) # (e \in DOMAIN scores')
  \/ e \in DOMAIN scores /\ e \in DOMAIN scores' /\ scores'[e] # scores[e]

\* C15: under every interleaving, the score of an email for which no two
\* UpdateScore requests overlapped is the sum of the deltas of its requests
\* that responded 200 (from no score), whatever overlapped for other emails;
\* and the score of an email changes only in the write of an UpdateScore for
\* that email.
C15_OtherEmailsDoNotInterfere ==
  /\ [](\A e \in Emails \ updOverlap.same : HGetInt(scores, e).val = sum[e])
  /\ [][\A e \in Emails :
          ScoreChanged(e) => \E p \in Procs : pc[p] = "uSet" /\ req[p].email = e /\ Responds(p)]_vars

C15_Witness ==
  /\ updOverlap.diff /\ updOverlap.same = {}
  /\ \A p \in Procs : pc[p] = "idle"
  /\ \A e \in Emails : sum[e] # 0 /\ HGetInt(scores, e).val = sum[e]
  /\ last.h = "UpdateScore" /\ last.status = 200

\* C16: the location Signup checks and Login reads (GET <email>) and the
\* location Signup writes and ListUsers enumerates (the hash "users") hold
\* the same email-to-password mapping, so the entry of every Signup that
\* responded 201 is there for the Signup check, for Login and for ListUsers.
C16_OneUserMapping ==
  /\ \A e \in Emails : Get(keys, e) = HGet(users, e)
  /\ \A x \in signups : x[1] \in DOMAIN keys /\ x[1] \in DOMAIN users

====
